---- MODULE Spec2Model ----
(***************************************************************************)
(* Model of src/app.py: the in-memory job store `analysis_jobs`, the       *)
(* background runner `run_analysis`, the status readers (poll, SSE stream, *)
(* recent listing) and the upload boundary.                                *)
(*                                                                         *)
(* Scheduling.  Every handler and the runner are `async def` coroutines    *)
(* driven by one event loop thread.  A coroutine gives up the thread only  *)
(* at an await or a yield.  run_analysis (lines 127-199) holds no await,   *)
(* so once started it keeps the thread until it returns: `running` names   *)
(* the job whose runner holds the thread, and every other coroutine waits  *)
(* for LoopIdle.  The runner is still modelled statement by statement      *)
(* (pc = the source line about to execute) so that the order of its        *)
(* writes is part of the model.  The stream generator (lines 220-240)      *)
(* suspends at its two yields and at the sleep.                            *)
(*                                                                         *)
(* State.  analysis_jobs: the job store, in insertion order (the id of a   *)
(* job is its position; uuid4 ids are taken to be unique).  tasks: the     *)
(* frame of each job's runner (pc and locals).  calls: the collaborator    *)
(* calls made for each job, with their outcomes.  crew_stock: the class    *)
(* attribute InvestmentCrew.stock.  now: the wall clock.  response: the    *)
(* HTTP response sent by the last step.  returned: the ids creation has    *)
(* returned.  streams: the SSE generators.  files, index_reinits: the      *)
(* upload directory and the forced reinitialisations of the index.         *)
(* print() and traceback.format_exc() are taken not to fail.               *)
(***************************************************************************)
EXTENDS Integers, Sequences, FiniteSets, TLC

VARIABLES analysis_jobs, tasks, running, crew_stock, calls, now,
          response, returned, streams, files, index_reinits

vars == <<analysis_jobs, tasks, running, crew_stock, calls, now,
          response, returned, streams, files, index_reinits>>

(* ------------------------------ bounds -------------------------------- *)
MaxJobs == 2
MaxStreamJobs == 1
MaxFairJobs == 2
MaxAllJobs == 1
MaxFrameJobs == 2
MaxListJobs == 11
MaxListRunners == 1
MaxStreams == 1
MaxFairStreams == 2
MaxEvents == 2
MaxTicks == 1
MaxListTicks == 1
MaxUploads == 3
ClockStart == 9

Tickers == {"ACME", "XYZ"}
Summaries == {"Buy ACME"}
IndexErrors == {"index unavailable"}
AnalysisErrors == {"timeout"}

(* ------------------------- values and helpers ------------------------- *)
\* Python None / a present value, as a sequence of length 0 / 1.
None == <<>>
Some(v) == <<v>>
IsNone(o) == o = <<>>
Get(o) == o[1]

NoJob == 0
\* An id no creation ever returns (a client-made string that is no uuid4).
UnknownId == 0

JobIds == DOMAIN analysis_jobs

Terminal == {"completed", "failed"}

\* datetime.isoformat(): fixed-width, zero-padded decimal fields; the model
\* keeps two digits of the clock.
Isoformat(t) == <<(t \div 10) % 10, t % 10>>

\* str(x) of a value that already is a string is that string.
Str(x) == x

(* ------------------------------ state --------------------------------- *)
\* An HTTP response: the operation, its argument, the status code and the
\* payload.  `response` holds the response the last step sent, NoResponse
\* when the last step did not end a request.
Response(op, request, code, body) ==
    [op |-> op, request |-> request, code |-> code, body |-> body]

NoResponse == Response("none", "", 0, <<>>)

IdleStream == [pc |-> "idle", job_id |-> UnknownId, at_open |-> "idle",
               count |-> 0, last |-> None]

\* The SSE connections the server can hold; a specification opens those
\* within its own bound and leaves the others idle.
Connections == 1..MaxFairStreams

Init ==
    /\ analysis_jobs = <<>>
    /\ tasks = <<>>
    /\ running = NoJob
    /\ crew_stock = None
    /\ calls = <<>>
    /\ now = ClockStart
    /\ response = NoResponse
    /\ returned = {}
    /\ streams = [s \in Connections |-> IdleStream]
    /\ files = {}
    /\ index_reinits = 0

\* Mutant: handlers run on worker threads and may run between any two
\* statements of a runner.
LoopIdlePreemptive == TRUE

\* The event loop thread is free: no runner is between its first and its
\* last statement.
LoopIdle == running = NoJob

\* The wall clock read by datetime.now() (lines 105, 180).  It advances on
\* its own; while a runner holds the thread the only stretch that takes
\* time is the collaborator call of line 171.
Tick(maxTicks) ==
    /\ IF LoopIdle THEN TRUE ELSE tasks[running].pc = 171
    /\ now < ClockStart + maxTicks
    /\ now' = now + 1
    /\ response' = NoResponse
    /\ UNCHANGED <<analysis_jobs, tasks, running, crew_stock, calls, returned,
                   streams, files, index_reinits>>

(* --------------------- POST /api/analyze-stock ------------------------ *)
\* uuid.uuid4(): an id no earlier creation returned.
FreshId == Len(analysis_jobs) + 1

\* Mutant: the record is created already marked as processing.
NewJobProcessing(ticker) ==
    [status |-> "processing", progress |-> 0, message |-> "Analysis job created",
     stock_ticker |-> ticker, created_at |-> Isoformat(now),
     result |-> None, error |-> None]

\* Lines 100-108.
NewJob(ticker) ==
    [status |-> "pending", progress |-> 0, message |-> "Analysis job created",
     stock_ticker |-> ticker, created_at |-> Isoformat(now),
     result |-> None, error |-> None]

NewTask(ticker, docs) ==
    [pc |-> 127, stock_ticker |-> ticker, include_uploaded_docs |-> docs,
     result |-> None, analysis_result |-> None, e |-> None]

AnalyzeStock(maxJobs, ticker, docs) ==
    /\ LoopIdle
    /\ Len(analysis_jobs) < maxJobs
    /\ analysis_jobs' = Append(analysis_jobs, NewJob(ticker))
    /\ tasks' = Append(tasks, NewTask(ticker, docs))
    /\ calls' = Append(calls, <<>>)
    /\ returned' = returned \cup {FreshId}
    /\ response' = Response("analyze", ticker, 200,
                             <<[job_id |-> FreshId, status |-> "pending"]>>)
    /\ UNCHANGED <<running, crew_stock, now, streams, files, index_reinits>>

(* --------------------------- run_analysis ----------------------------- *)
\* Mutant: the assignment is applied to every record of the store.
StoreEveryRecord(j, field, value) ==
    analysis_jobs' = [k \in DOMAIN analysis_jobs |->
                         [analysis_jobs[k] EXCEPT ![field] = value]]

Store(j, field, value) ==
    analysis_jobs' = [analysis_jobs EXCEPT ![j][field] = value]

Goto(j, line) == tasks' = [tasks EXCEPT ![j].pc = line]

At(j, line) == running = j /\ tasks[j].pc = line

\* The statements of run_analysis that assign one field of the job record:
\* source line -> field, value, next line.
WriteLines == {133, 134, 135, 139, 140, 143, 154, 155, 168, 169, 174, 175,
               185, 186, 187}

WriteField(line) ==
    CASE line \in {133, 185} -> "status"
      [] line \in {134, 139, 154, 168, 174, 186} -> "progress"
      [] OTHER -> "message"

WriteValue(line) ==
    CASE line = 133 -> "processing"
      [] line = 134 -> 10
      [] line = 135 -> "Initializing analysis agents..."
      [] line = 139 -> 20
      [] line = 140 -> "Loading uploaded documents..."
      [] line = 143 -> "No documents found, proceeding without document analysis..."
      [] line = 154 -> 30
      [] line = 155 -> "Starting fundamental analysis..."
      [] line = 168 -> 50
      [] line = 169 -> "Performing valuation analysis..."
      [] line = 174 -> 80
      [] line = 175 -> "Analyzing market sentiment..."
      [] line = 185 -> "completed"
      [] line = 186 -> 100
      [] line = 187 -> "Analysis completed successfully"

\* Mutant: line 186 (progress = 100) is skipped.
NextLineSkips186(line) ==
    CASE line = 135 -> 138
      [] line = 140 -> 141
      [] line = 143 -> 154
      [] line = 155 -> 159
      [] line = 169 -> 171
      [] line = 175 -> 178
      [] line = 185 -> 187
      [] line = 187 -> 188
      [] OTHER -> line + 1

NextLine(line) ==
    CASE line = 135 -> 138
      [] line = 140 -> 141
      [] line = 143 -> 154
      [] line = 155 -> 159
      [] line = 169 -> 171
      [] line = 175 -> 178
      [] line = 187 -> 188
      [] OTHER -> line + 1

\* Mutant: the runner starts at line 134, never writing "processing".
RunStartSkipsProcessing(j) ==
    /\ LoopIdle
    /\ tasks[j].pc = 127
    /\ running' = j
    /\ Goto(j, 134)
    /\ response' = NoResponse
    /\ UNCHANGED <<analysis_jobs, crew_stock, calls, now, returned, streams,
                   files, index_reinits>>

\* Lines 127-130: the event loop starts the background task.
RunStart(j) ==
    /\ LoopIdle
    /\ tasks[j].pc = 127
    /\ running' = j
    /\ Goto(j, 133)
    /\ response' = NoResponse
    /\ UNCHANGED <<analysis_jobs, crew_stock, calls, now, returned, streams,
                   files, index_reinits>>

RunWrite(j) ==
    /\ running = j
    /\ tasks[j].pc \in WriteLines
    /\ Store(j, WriteField(tasks[j].pc), WriteValue(tasks[j].pc))
    /\ Goto(j, NextLine(tasks[j].pc))
    /\ response' = NoResponse
    /\ UNCHANGED <<running, crew_stock, calls, now, returned, streams, files,
                   index_reinits>>

\* Mutant: the include_uploaded_docs branch is never taken.
RunBranchDocsSkips(j) ==
    /\ At(j, 138)
    /\ Goto(j, 154)
    /\ response' = NoResponse
    /\ UNCHANGED <<analysis_jobs, running, crew_stock, calls, now, returned,
                   streams, files, index_reinits>>

\* Line 138: if include_uploaded_docs.
RunBranchDocs(j) ==
    /\ At(j, 138)
    /\ Goto(j, IF tasks[j].include_uploaded_docs THEN 139 ELSE 154)
    /\ response' = NoResponse
    /\ UNCHANGED <<analysis_jobs, running, crew_stock, calls, now, returned,
                   streams, files, index_reinits>>

CallRecord(j, fn, outcome, value) ==
    [fn |-> fn, outcome |-> outcome, value |-> value,
     stock |-> tasks[j].stock_ticker, class_stock |-> crew_stock]

Raise(j, text) ==
    tasks' = [tasks EXCEPT ![j].pc = 197, ![j].e = Some(text)]

\* Mutant: a None index is handled as a failure of the job.
RunGetChromaragNoneFails(j) ==
    /\ At(j, 141)
    /\ \/ /\ calls' = [calls EXCEPT ![j] =
                         Append(@, CallRecord(j, "get_chromarag", "handle", ""))]
          /\ Goto(j, 154)
       \/ \E d \in IndexErrors :
            /\ calls' = [calls EXCEPT ![j] =
                           Append(@, CallRecord(j, "get_chromarag", "none", ""))]
            /\ Raise(j, d)
       \/ \E d \in IndexErrors :
            /\ calls' = [calls EXCEPT ![j] =
                           Append(@, CallRecord(j, "get_chromarag", "raise", d))]
            /\ Raise(j, d)
    /\ response' = NoResponse
    /\ UNCHANGED <<analysis_jobs, running, crew_stock, now, returned, streams,
                   files, index_reinits>>

\* Lines 141-142: chromarag = get_chromarag(); it returns a handle, returns
\* None, or raises.
RunGetChromarag(j) ==
    /\ At(j, 141)
    /\ \/ /\ calls' = [calls EXCEPT ![j] =
                         Append(@, CallRecord(j, "get_chromarag", "handle", ""))]
          /\ Goto(j, 154)
       \/ /\ calls' = [calls EXCEPT ![j] =
                         Append(@, CallRecord(j, "get_chromarag", "none", ""))]
          /\ Goto(j, 143)
       \/ \E d \in IndexErrors :
            /\ calls' = [calls EXCEPT ![j] =
                           Append(@, CallRecord(j, "get_chromarag", "raise", d))]
            /\ Raise(j, d)
    /\ response' = NoResponse
    /\ UNCHANGED <<analysis_jobs, running, crew_stock, now, returned, streams,
                   files, index_reinits>>

\* Mutant: the class attribute `stock` is set only when it is still unset.
RunCreateCrewStale(j) ==
    /\ At(j, 159)
    /\ crew_stock' = IF IsNone(crew_stock) THEN Some(tasks[j].stock_ticker)
                                          ELSE crew_stock
    /\ \/ /\ Goto(j, 168)
          /\ UNCHANGED calls
       \/ \E d \in AnalysisErrors :
            /\ calls' = [calls EXCEPT ![j] =
                           Append(@, CallRecord(j, "crew", "raise", d))]
            /\ Raise(j, d)
    /\ response' = NoResponse
    /\ UNCHANGED <<analysis_jobs, running, now, returned, streams, files,
                   index_reinits>>

\* Lines 159-165: InvestmentCrew(), the instance and the class attribute
\* `stock` are set, crew() is built or raises.
RunCreateCrew(j) ==
    /\ At(j, 159)
    /\ crew_stock' = Some(tasks[j].stock_ticker)
    /\ \/ /\ Goto(j, 168)
          /\ UNCHANGED calls
       \/ \E d \in AnalysisErrors :
            /\ calls' = [calls EXCEPT ![j] =
                           Append(@, CallRecord(j, "crew", "raise", d))]
            /\ Raise(j, d)
    /\ response' = NoResponse
    /\ UNCHANGED <<analysis_jobs, running, now, returned, streams, files,
                   index_reinits>>

\* Line 171: result = crew.kickoff(inputs=inputs); it returns or raises.
RunKickoff(j) ==
    /\ At(j, 171)
    /\ \/ \E s \in Summaries :
            /\ calls' = [calls EXCEPT ![j] =
                           Append(@, CallRecord(j, "kickoff", "return", s))]
            /\ tasks' = [tasks EXCEPT ![j].pc = 174, ![j].result = Some(s)]
       \/ \E d \in AnalysisErrors :
            /\ calls' = [calls EXCEPT ![j] =
                           Append(@, CallRecord(j, "kickoff", "raise", d))]
            /\ Raise(j, d)
    /\ response' = NoResponse
    /\ UNCHANGED <<analysis_jobs, running, crew_stock, now, returned, streams,
                   files, index_reinits>>

\* Mutant: the summary is taken from the wrong local.
AnalysisResultWrongSummary(j) ==
    [stock_ticker |-> tasks[j].stock_ticker, timestamp |-> Isoformat(now),
     summary |-> tasks[j].stock_ticker]

\* Lines 178-182.
AnalysisResult(j) ==
    [stock_ticker |-> tasks[j].stock_ticker, timestamp |-> Isoformat(now),
     summary |-> Str(Get(tasks[j].result))]

RunBuildResult(j) ==
    /\ At(j, 178)
    /\ tasks' = [tasks EXCEPT ![j].pc = 185,
                              ![j].analysis_result = Some(AnalysisResult(j))]
    /\ response' = NoResponse
    /\ UNCHANGED <<analysis_jobs, running, crew_stock, calls, now, returned,
                   streams, files, index_reinits>>

\* The coroutine returns: its frame is dropped and the thread is free.
Return(j) ==
    /\ tasks' = [tasks EXCEPT ![j].pc = 200, ![j].result = None,
                              ![j].analysis_result = None, ![j].e = None]
    /\ running' = NoJob

\* Lines 188-189.
RunStoreResult(j) ==
    /\ At(j, 188)
    /\ Store(j, "result", tasks[j].analysis_result)
    /\ Return(j)
    /\ response' = NoResponse
    /\ UNCHANGED <<crew_stock, calls, now, returned, streams, files,
                   index_reinits>>

\* Mutant: the except block also resets progress.
RunFailStatusResetsProgress(j) ==
    /\ At(j, 197)
    /\ analysis_jobs' = [analysis_jobs EXCEPT ![j].status = "failed",
                                              ![j].progress = 0]
    /\ Goto(j, 198)
    /\ response' = NoResponse
    /\ UNCHANGED <<running, crew_stock, calls, now, returned, streams, files,
                   index_reinits>>

\* Line 197, first statement of the except block that changes state.
RunFailStatus(j) ==
    /\ At(j, 197)
    /\ Store(j, "status", "failed")
    /\ Goto(j, 198)
    /\ response' = NoResponse
    /\ UNCHANGED <<running, crew_stock, calls, now, returned, streams, files,
                   index_reinits>>

\* Line 198.
RunFailError(j) ==
    /\ At(j, 198)
    /\ Store(j, "error", Some(Str(Get(tasks[j].e))))
    /\ Goto(j, 199)
    /\ response' = NoResponse
    /\ UNCHANGED <<running, crew_stock, calls, now, returned, streams, files,
                   index_reinits>>

\* Mutant: the message drops the error description.
FailureMessageGeneric(text) == "Analysis failed"

\* Line 199: f"Analysis failed: {str(e)}".
FailureMessage(text) == "Analysis failed: " \o text

\* Line 199, then the coroutine returns normally.
RunFailMessage(j) ==
    /\ At(j, 199)
    /\ Store(j, "message", FailureMessage(Str(Get(tasks[j].e))))
    /\ Return(j)
    /\ response' = NoResponse
    /\ UNCHANGED <<crew_stock, calls, now, returned, streams, files,
                   index_reinits>>

(* ---------------- GET /api/analysis-status/{job_id} ------------------- *)
\* Mutant: a job counts as present only once its runner has started.
KnownJobStarted(id) == id \in JobIds /\ analysis_jobs[id].status # "pending"

\* Line 204: job_id in analysis_jobs.
KnownJob(id) == id \in JobIds

\* Lines 208-215.
AnalysisStatus(id) ==
    [job_id |-> id, status |-> analysis_jobs[id].status,
     progress |-> analysis_jobs[id].progress,
     message |-> analysis_jobs[id].message,
     result |-> analysis_jobs[id].result, error |-> analysis_jobs[id].error]

GetAnalysisStatus(id) ==
    /\ LoopIdle
    /\ response' = IF ~KnownJob(id)
                   THEN Response("status", id, 404, <<"Job not found">>)
                   ELSE Response("status", id, 200, <<AnalysisStatus(id)>>)
    /\ UNCHANGED <<analysis_jobs, tasks, running, crew_stock, calls, now,
                   returned, streams, files, index_reinits>>

(* ---------------- GET /api/analysis-stream/{job_id} ------------------- *)
NotFoundEvent == [error |-> Some("Job not found")]

\* Lines 226-233: the fields copied out of the job record.
Snapshot(id) ==
    [status |-> analysis_jobs[id].status, progress |-> analysis_jobs[id].progress,
     message |-> analysis_jobs[id].message, result |-> analysis_jobs[id].result,
     error |-> analysis_jobs[id].error]

IsSnapshot(ev) == "status" \in DOMAIN ev

\* Mutant: the loop ends on "completed" only.
StreamSeesCompleted(id) == analysis_jobs[id].status = "completed"

\* Line 237: job["status"] in ["completed", "failed"], read from the live
\* record when the generator is resumed after the yield.
StreamSeesTerminal(id) == analysis_jobs[id].status \in Terminal

\* Lines 218-242: the handler returns the response around a generator that
\* has not started.
StreamOpen(s, id) ==
    /\ LoopIdle
    /\ streams[s].pc = "idle"
    /\ streams' = [streams EXCEPT ![s] =
          [IdleStream EXCEPT !.pc = "start", !.job_id = id,
               !.at_open = IF KnownJob(id) THEN analysis_jobs[id].status
                           ELSE "absent"]]
    /\ response' = NoResponse
    /\ UNCHANGED <<analysis_jobs, tasks, running, crew_stock, calls, now,
                   returned, files, index_reinits>>

Emit(s, ev, pc) ==
    streams' = [streams EXCEPT ![s].pc = pc, ![s].last = Some(ev),
                   ![s].count = IF @ < MaxEvents THEN @ + 1 ELSE @]

\* Lines 221-235: from the top of the loop (first request for an item, or
\* the sleep has elapsed) to the next yield.
StreamNext(s) ==
    /\ LoopIdle
    /\ streams[s].pc \in {"start", "sleep"}
    /\ IF ~KnownJob(streams[s].job_id)
       THEN Emit(s, NotFoundEvent, "yield_nf")
       ELSE Emit(s, Snapshot(streams[s].job_id), "yield_data")
    /\ response' = NoResponse
    /\ UNCHANGED <<analysis_jobs, tasks, running, crew_stock, calls, now,
                   returned, files, index_reinits>>

\* Mutant: no break after the not-found event (line 224).
StreamResumeNoBreak(s) ==
    /\ LoopIdle
    /\ streams[s].pc \in {"yield_nf", "yield_data"}
    /\ streams' = [streams EXCEPT ![s] =
          IF @.pc = "yield_data" /\ StreamSeesTerminal(@.job_id)
          THEN [@ EXCEPT !.pc = "done"]
          ELSE [@ EXCEPT !.pc = "sleep"]]
    /\ response' = NoResponse
    /\ UNCHANGED <<analysis_jobs, tasks, running, crew_stock, calls, now,
                   returned, files, index_reinits>>

\* Lines 224, 237-240: the consumer resumes the generator after a yield.
StreamResume(s) ==
    /\ LoopIdle
    /\ streams[s].pc \in {"yield_nf", "yield_data"}
    /\ streams' = [streams EXCEPT ![s] =
          IF @.pc = "yield_nf" \/ StreamSeesTerminal(@.job_id)
          THEN [@ EXCEPT !.pc = "done"]
          ELSE [@ EXCEPT !.pc = "sleep"]]
    /\ response' = NoResponse
    /\ UNCHANGED <<analysis_jobs, tasks, running, crew_stock, calls, now,
                   returned, files, index_reinits>>

(* ------------------- GET /api/recent-analyses ------------------------- *)
RecentLimit == 10

\* Python's str comparison on two created_at values: lexicographic.
RECURSIVE LexLess(_, _)
LexLess(a, b) ==
    IF b = <<>> THEN FALSE
    ELSE IF a = <<>> THEN TRUE
    ELSE IF Head(a) # Head(b) THEN Head(a) < Head(b)
    ELSE LexLess(Tail(a), Tail(b))

\* Lines 249-255.
Summary(id) ==
    [job_id |-> id, stock_ticker |-> analysis_jobs[id].stock_ticker,
     status |-> analysis_jobs[id].status,
     created_at |-> analysis_jobs[id].created_at,
     message |-> analysis_jobs[id].message]

\* Lines 247-255: one summary per job, in the dict's insertion order.
Summaries_(n) == [i \in 1..n |-> Summary(i)]

\* x goes before the first element whose key is smaller than x's: equal
\* keys keep their original order (list.sort is stable, also under
\* reverse=True).
RECURSIVE InsertDesc(_, _)
InsertDesc(x, sorted) ==
    IF sorted = <<>> THEN <<x>>
    ELSE IF LexLess(Head(sorted).created_at, x.created_at)
         THEN <<x>> \o sorted
         ELSE <<Head(sorted)>> \o InsertDesc(x, Tail(sorted))

\* Line 258: recent.sort(key=created_at, reverse=True).
RECURSIVE SortDesc(_)
SortDesc(seq) ==
    IF seq = <<>> THEN <<>>
    ELSE InsertDesc(seq[Len(seq)], SortDesc(SubSeq(seq, 1, Len(seq) - 1)))

\* Mutant: the slice keeps one element too many.
SliceOneMore(seq, n) == SubSeq(seq, 1, IF Len(seq) < n + 1 THEN Len(seq) ELSE n + 1)

\* Line 259: recent[:10].
Slice(seq, n) == SubSeq(seq, 1, IF Len(seq) < n THEN Len(seq) ELSE n)

RecentAnalyses == Slice(SortDesc(Summaries_(Len(analysis_jobs))), RecentLimit)

GetRecentAnalyses ==
    /\ LoopIdle
    /\ response' = Response("recent", "", 200, RecentAnalyses)
    /\ UNCHANGED <<analysis_jobs, tasks, running, crew_stock, calls, now,
                   returned, streams, files, index_reinits>>

(* -------------------- POST /api/upload-document ----------------------- *)
\* File names as sequences of characters.
FileNames == {<<"r", ".", "e", "x", "e">>, <<"r", ".", "P", "D", "F">>,
              <<"r", ".", "t", "x", "t">>, <<"r", ".", "d", "o", "c", "x">>,
              <<"r">>, <<"r", ".", "p", "d", "f", ".", "s", "h">>}

AllowedExtensions == {<<".", "p", "d", "f">>, <<".", "d", "o", "c", "x">>,
                      <<".", "t", "x", "t">>}

\* Path(name).suffix: from the last dot of the name on; empty when there is
\* no dot, or the only dot leads the name.
Dots(name) == {i \in 1..Len(name) : name[i] = "."}
LastDot(name) == CHOOSE i \in Dots(name) : \A k \in Dots(name) : k <= i
Suffix(name) ==
    IF Dots(name) = {} \/ LastDot(name) = 1 THEN <<>>
    ELSE SubSeq(name, LastDot(name), Len(name))

LowerChar(c) ==
    CASE c = "P" -> "p" [] c = "D" -> "d" [] c = "F" -> "f" [] OTHER -> c
Lower(str) == [i \in 1..Len(str) |-> LowerChar(str[i])]

\* Line 54.
ExtensionAllowed(name) == Lower(Suffix(name)) \in AllowedExtensions

\* Lines 55-58.
FileTypeError ==
    [status_code |-> 400,
     detail |-> "File type not allowed. Allowed types: .pdf, .docx, .txt"]

\* str(e) of an HTTPException: its status code and its detail.
StrHTTPException(e) == <<e.status_code, e.detail>>

\* Lines 89-90: except Exception as e: raise HTTPException(500, str(e)).
\* HTTPException is an Exception, so the handler's own 400 is caught too.
ServerError(e) == [status_code |-> 500, detail |-> StrHTTPException(e)]

WriteFile(name, content) ==
    {f \in files : f.name # name} \cup {[name |-> name, content |-> content]}

\* Lines 46-90.  decodable: content.decode('utf-8') succeeds;
\* reinit_ok: get_chromarag(force_reinit=True) returns.
UploadDocument(name, decodable, reinit_ok) ==
    /\ LoopIdle
    /\ index_reinits < MaxUploads
    /\ LET ext == Lower(Suffix(name))
           path == <<now, name>>
       IN IF ~ExtensionAllowed(name)
          THEN /\ response' = Response("upload", name,
                                       ServerError(FileTypeError).status_code,
                                       <<ServerError(FileTypeError).detail>>)
               /\ UNCHANGED <<files, index_reinits>>
          ELSE IF ext = <<".", "t", "x", "t">> /\ ~decodable
          THEN \* open(path, 'w') has created the file when decode raises
               /\ files' = WriteFile(path, "empty")
               /\ response' = Response("upload", name, 500, <<"decode error">>)
               /\ UNCHANGED index_reinits
          ELSE /\ files' = WriteFile(path, "content")
               /\ index_reinits' = IF ext = <<".", "p", "d", "f">>
                                   THEN index_reinits + 1 ELSE index_reinits
               /\ response' = IF ext = <<".", "p", "d", "f">> /\ ~reinit_ok
                              THEN Response("upload", name, 500, <<"index error">>)
                              ELSE Response("upload", name, 200, <<path>>)
    /\ UNCHANGED <<analysis_jobs, tasks, running, crew_stock, calls, now,
                   returned, streams>>

\* Mutant: clearing the documents also empties the job store.
ClearDocumentsAndJobs ==
    /\ LoopIdle
    /\ files' = {}
    /\ analysis_jobs' = <<>>
    /\ response' = Response("clear", "", 200, <<"All documents cleared">>)
    /\ UNCHANGED <<tasks, running, crew_stock, calls, now, returned, streams,
                   index_reinits>>

\* Lines 261-273.
ClearDocuments ==
    /\ LoopIdle
    /\ files' = {}
    /\ response' = Response("clear", "", 200, <<"All documents cleared">>)
    /\ UNCHANGED <<analysis_jobs, tasks, running, crew_stock, calls, now,
                   returned, streams, index_reinits>>

(* --------------------------- specifications --------------------------- *)
\* Requests with any ticker and either setting of include_uploaded_docs,
\* their runners, and status polls.
Next ==
    \/ \E t \in Tickers, d \in BOOLEAN : AnalyzeStock(MaxJobs, t, d)
    \/ \E j \in JobIds : RunStart(j)
    \/ \E j \in JobIds : RunWrite(j)
    \/ \E j \in JobIds : RunBranchDocs(j)
    \/ \E j \in JobIds : RunGetChromarag(j)
    \/ \E j \in JobIds : RunCreateCrew(j)
    \/ \E j \in JobIds : RunKickoff(j)
    \/ \E j \in JobIds : RunBuildResult(j)
    \/ \E j \in JobIds : RunStoreResult(j)
    \/ \E j \in JobIds : RunFailStatus(j)
    \/ \E j \in JobIds : RunFailError(j)
    \/ \E j \in JobIds : RunFailMessage(j)
    \/ \E id \in JobIds \cup {UnknownId} : GetAnalysisStatus(id)

Spec == Init /\ [][Next]_vars

\* Requests with include_uploaded_docs = false and their runners, under
\* the event loop's scheduling: it runs every task that is ready, so a
\* scheduled runner is started and a started runner executes its
\* statements to the end (a collaborator call that never comes back is
\* outside this specification).
NextFair ==
    \/ \E t \in Tickers : AnalyzeStock(MaxFairJobs, t, FALSE)
    \/ \E j \in JobIds : RunStart(j)
    \/ \E j \in JobIds : RunWrite(j)
    \/ \E j \in JobIds : RunBranchDocs(j)
    \/ \E j \in JobIds : RunCreateCrew(j)
    \/ \E j \in JobIds : RunKickoff(j)
    \/ \E j \in JobIds : RunBuildResult(j)
    \/ \E j \in JobIds : RunStoreResult(j)
    \/ \E j \in JobIds : RunFailStatus(j)
    \/ \E j \in JobIds : RunFailError(j)
    \/ \E j \in JobIds : RunFailMessage(j)
    \/ \E id \in JobIds \cup {UnknownId} : GetAnalysisStatus(id)

RunnerStep(j) ==
    /\ j \in JobIds
    /\ \/ RunStart(j) \/ RunWrite(j) \/ RunBranchDocs(j)
       \/ RunCreateCrew(j) \/ RunKickoff(j) \/ RunBuildResult(j)
       \/ RunStoreResult(j) \/ RunFailStatus(j) \/ RunFailError(j)
       \/ RunFailMessage(j)

FairSpec ==
    Init /\ [][NextFair]_vars /\ \A j \in 1..MaxFairJobs : WF_vars(RunnerStep(j))

\* Jobs of one ticker created with include_uploaded_docs = true, under the
\* same scheduling as FairSpec; the document index call comes back too.
NextFairDocs ==
    \/ AnalyzeStock(MaxFairJobs, "ACME", TRUE)
    \/ \E j \in JobIds : RunnerStep(j)
    \/ \E j \in JobIds : RunGetChromarag(j)

FairDocsSpec ==
    /\ Init /\ [][NextFairDocs]_vars
    /\ \A j \in 1..MaxFairJobs :
          WF_vars(RunnerStep(j)) /\ WF_vars(j \in JobIds /\ RunGetChromarag(j))

\* Readers of one ticker's jobs (include_uploaded_docs = false): status
\* polls and SSE streams, interleaved with the runners.
NextStream ==
    \/ AnalyzeStock(MaxStreamJobs, "ACME", FALSE)
    \/ \E j \in JobIds : RunStart(j)
    \/ \E j \in JobIds : RunWrite(j)
    \/ \E j \in JobIds : RunBranchDocs(j)
    \/ \E j \in JobIds : RunCreateCrew(j)
    \/ \E j \in JobIds : RunKickoff(j)
    \/ \E j \in JobIds : RunBuildResult(j)
    \/ \E j \in JobIds : RunStoreResult(j)
    \/ \E j \in JobIds : RunFailStatus(j)
    \/ \E j \in JobIds : RunFailError(j)
    \/ \E j \in JobIds : RunFailMessage(j)
    \/ \E id \in JobIds \cup {UnknownId} : GetAnalysisStatus(id)
    \/ \E s \in 1..MaxStreams, id \in JobIds \cup {UnknownId} : StreamOpen(s, id)
    \/ \E s \in 1..MaxStreams : StreamNext(s)
    \/ \E s \in 1..MaxStreams : StreamResume(s)

SpecStream == Init /\ [][NextStream]_vars

\* Streams under fair scheduling: MaxFairStreams SSE connections on the one
\* job of ticker "ACME" (include_uploaded_docs = false) or on an unknown id.
\* The event loop runs a scheduled runner and resumes a generator whose
\* consumer asks for the next event; every collaborator call comes back.
NextFairStream ==
    \/ AnalyzeStock(1, "ACME", FALSE)
    \/ \E j \in JobIds : RunnerStep(j)
    \/ \E s \in 1..MaxFairStreams, id \in JobIds \cup {UnknownId} : StreamOpen(s, id)
    \/ \E s \in 1..MaxFairStreams : StreamNext(s)
    \/ \E s \in 1..MaxFairStreams : StreamResume(s)

FairStreamSpec ==
    /\ Init /\ [][NextFairStream]_vars
    /\ WF_vars(RunnerStep(1))
    /\ \A s \in 1..MaxFairStreams :
          WF_vars(StreamNext(s)) /\ WF_vars(StreamResume(s))

\* The listing over a store of up to MaxListJobs jobs created at
\* MaxListTicks + 1 clock values; the runners of the first MaxListRunners
\* jobs execute, the others stay scheduled.
ListRunners == {j \in JobIds : j <= MaxListRunners}

NextList ==
    \/ AnalyzeStock(MaxListJobs, "ACME", FALSE)
    \/ Tick(MaxListTicks)
    \/ \E j \in ListRunners : RunStart(j)
    \/ \E j \in ListRunners : RunWrite(j)
    \/ \E j \in ListRunners : RunBranchDocs(j)
    \/ \E j \in ListRunners : RunCreateCrew(j)
    \/ \E j \in ListRunners : RunKickoff(j)
    \/ \E j \in ListRunners : RunBuildResult(j)
    \/ \E j \in ListRunners : RunStoreResult(j)
    \/ \E j \in ListRunners : RunFailStatus(j)
    \/ \E j \in ListRunners : RunFailError(j)
    \/ \E j \in ListRunners : RunFailMessage(j)
    \/ GetRecentAnalyses

SpecList == Init /\ [][NextList]_vars

\* The upload boundary and the upload directory.
NextUpload ==
    \/ \E n \in FileNames, d \in BOOLEAN, r \in BOOLEAN : UploadDocument(n, d, r)
    \/ ClearDocuments
    \/ Tick(MaxTicks)

SpecUpload == Init /\ [][NextUpload]_vars

\* Every kind of operation together, with the clock running: requests for
\* either ticker (include_uploaded_docs = false), their runners, status
\* polls, one SSE connection, the listing and clear-documents.
NextAll ==
    \/ \E t \in Tickers : AnalyzeStock(MaxAllJobs, t, FALSE)
    \/ \E j \in JobIds : RunnerStep(j)
    \/ \E id \in JobIds \cup {UnknownId} : GetAnalysisStatus(id)
    \/ \E id \in JobIds \cup {UnknownId} : StreamOpen(1, id)
    \/ StreamNext(1)
    \/ StreamResume(1)
    \/ GetRecentAnalyses
    \/ ClearDocuments
    \/ Tick(MaxTicks)

SpecAll == Init /\ [][NextAll]_vars

\* Several jobs and their readers at one clock value: requests for either
\* ticker (include_uploaded_docs = false), their runners, status polls, one
\* SSE connection and the listing.
NextFrame ==
    \/ \E t \in Tickers : AnalyzeStock(MaxFrameJobs, t, FALSE)
    \/ \E j \in JobIds : RunnerStep(j)
    \/ \E id \in JobIds \cup {UnknownId} : GetAnalysisStatus(id)
    \/ \E id \in JobIds \cup {UnknownId} : StreamOpen(1, id)
    \/ StreamNext(1)
    \/ StreamResume(1)
    \/ GetRecentAnalyses

SpecFrame == Init /\ [][NextFrame]_vars

(* ------------------------------ claims -------------------------------- *)
\* What a reader holds after a read: a status poll's body or a stream's
\* last event.
PollBody == response.body[1]
PollOk == response.op = "status" /\ response.code = 200
LastEvent(s) == Get(streams[s].last)
HasSnapshot(s) == ~IsNone(streams[s].last) /\ IsSnapshot(LastEvent(s))

ResultErrorMatchStatus(v) ==
    /\ ~IsNone(v.result) <=> v.status = "completed"
    /\ ~IsNone(v.error) <=> v.status = "failed"

\* C1: every snapshot a reader obtains (status poll or stream event) has
\* result set exactly when status is "completed" and error set exactly when
\* status is "failed".
C1_NoTornRead ==
    /\ PollOk => ResultErrorMatchStatus(PollBody)
    /\ \A s \in 1..MaxStreams : HasSnapshot(s) => ResultErrorMatchStatus(LastEvent(s))

C1_Witness ==
    /\ PollOk /\ PollBody.status = "completed" /\ ~IsNone(PollBody.result)
    /\ \E s \in 1..MaxStreams : HasSnapshot(s) /\ LastEvent(s).status = "pending"

StatusSteps == {<<"pending", "processing">>, <<"processing", "completed">>,
                <<"processing", "failed">>}

\* C2: every change of a job's status is pending -> processing,
\* processing -> completed or processing -> failed; so status never
\* regresses, a terminal status is never left, and no terminal status is
\* reached from pending.
C2_StatusOrder ==
    [][\A j \in JobIds :
          analysis_jobs'[j].status # analysis_jobs[j].status =>
             <<analysis_jobs[j].status, analysis_jobs'[j].status>> \in StatusSteps]_vars

C2_Witness ==
    \E j, k \in JobIds : /\ analysis_jobs[j].status = "completed"
                         /\ analysis_jobs[k].status = "failed"

\* C3 (as claimed): a stream that has terminated on an existing job emitted a
\* terminal snapshot as its last event.
C3_LastEventTerminal ==
    \A s \in 1..MaxStreams :
        (streams[s].pc = "done" /\ HasSnapshot(s)) => LastEvent(s).status \in Terminal

\* C4: a stream opened on a job that is already terminal emits one event,
\* the job's terminal snapshot, and ends without reaching the sleep.
C4_TerminalJobOneEvent ==
    \A s \in 1..MaxStreams :
        streams[s].at_open \in Terminal =>
            \/ streams[s].pc = "start"
            \/ /\ streams[s].pc \in {"yield_data", "done"}
               /\ streams[s].count = 1
               /\ streams[s].last = Some(Snapshot(streams[s].job_id))
               /\ LastEvent(s).status = streams[s].at_open

C4_Witness ==
    \E s \in 1..MaxStreams :
        streams[s].at_open = "failed" /\ streams[s].pc = "done"

\* C5: a stream opened on an id that is not in the store emits one event,
\* the not-found event, and ends; it emits no snapshot and never sleeps.
C5_UnknownJobOneEvent ==
    \A s \in 1..MaxStreams :
        streams[s].at_open = "absent" =>
            \/ streams[s].pc = "start"
            \/ /\ streams[s].pc \in {"yield_nf", "done"}
               /\ streams[s].count = 1
               /\ streams[s].last = Some(NotFoundEvent)

C5_Witness ==
    \E s \in 1..MaxStreams :
        /\ streams[s].at_open = "absent" /\ streams[s].pc = "done"
        /\ JobIds # {}

\* C6: a status poll answers 404 "Job not found" exactly when the id was
\* never returned by a creation, and the poll leaves the store unchanged.
C6_PollNotFound ==
    [][response'.op = "status" =>
          /\ response'.code = 404 <=> response'.request \notin returned
          /\ response'.code = 404 => response'.body = <<"Job not found">>
          /\ analysis_jobs' = analysis_jobs]_vars

C6_Witness ==
    /\ response.op = "status" /\ response.code = 404
    /\ returned # {}

\* The collaborator calls made for job j, and the last of them.
LastCall(j) == calls[j][Len(calls[j])]
Raised(j) == calls[j] # <<>> /\ LastCall(j).outcome = "raise"
KickoffReturned(j) == calls[j] # <<>> /\ LastCall(j).fn = "kickoff" /\ LastCall(j).outcome = "return"

CompletedWith(j, summary) ==
    /\ analysis_jobs[j].status = "completed"
    /\ analysis_jobs[j].progress = 100
    /\ ~IsNone(analysis_jobs[j].result)
    /\ Get(analysis_jobs[j].result).stock_ticker = analysis_jobs[j].stock_ticker
    /\ Get(analysis_jobs[j].result).summary = summary
    /\ IsNone(analysis_jobs[j].error)

\* C7: a job created with include_uploaded_docs = false whose analysis
\* collaborator returns a summary eventually is completed with progress 100
\* and a result carrying the job's ticker and that summary; from the
\* collaborator's return on, error is None.
C7_EventuallyCompleted ==
    /\ \A j \in 1..MaxFairJobs :
          (j \in JobIds /\ ~tasks[j].include_uploaded_docs)
             ~> (j \in JobIds /\
                   (Raised(j) \/ (KickoffReturned(j) /\ CompletedWith(j, LastCall(j).value))))
    /\ [](\A j \in JobIds : KickoffReturned(j) => IsNone(analysis_jobs[j].error))

C7_Witness ==
    \E j \in JobIds : /\ ~tasks[j].include_uploaded_docs
                      /\ KickoffReturned(j)
                      /\ CompletedWith(j, LastCall(j).value)
                      /\ analysis_jobs[j].stock_ticker = "XYZ"

\* C8: once a collaborator has raised with description d for job j, the
\* runner is in its except block or has returned; when it has returned the
\* job is failed with error d, message "Analysis failed: " + d and no
\* result; no collaborator is called again for the job.
C8_FailureRecorded ==
    \A j \in JobIds :
        Raised(j) =>
           /\ tasks[j].pc \in {197, 198, 199, 200}
           /\ tasks[j].pc = 200 =>
                 /\ analysis_jobs[j].status = "failed"
                 /\ analysis_jobs[j].error = Some(LastCall(j).value)
                 /\ analysis_jobs[j].message = "Analysis failed: " \o LastCall(j).value
                 /\ IsNone(analysis_jobs[j].result)
           /\ Cardinality({i \in 1..Len(calls[j]) : calls[j][i].outcome = "raise"}) = 1

C8_Witness ==
    /\ \E j \in JobIds : /\ Raised(j) /\ LastCall(j).fn = "kickoff"
                         /\ tasks[j].pc = 200
    /\ \E j \in JobIds : /\ Raised(j) /\ LastCall(j).fn = "get_chromarag"
                         /\ tasks[j].pc = 200

\* The clock value a created_at string stands for.
TimeOf(created_at) == created_at[1] * 10 + created_at[2]

ListedIds == {response.body[i].job_id : i \in 1..Len(response.body)}

\* C9: the listing returns min(10, number of jobs) summaries, no job twice,
\* newest first; no job left out is newer than a listed one; and each
\* summary's ticker, status and created_at are the stored record's.
C9_RecentListing ==
    response.op = "recent" =>
       /\ Len(response.body) = (IF Len(analysis_jobs) < 10 THEN Len(analysis_jobs) ELSE 10)
       /\ Cardinality(ListedIds) = Len(response.body)
       /\ ListedIds \subseteq JobIds
       /\ \A i, k \in 1..Len(response.body) :
             i < k => TimeOf(response.body[i].created_at) >= TimeOf(response.body[k].created_at)
       /\ \A i \in 1..Len(response.body) :
             LET e == response.body[i]
             IN /\ e.stock_ticker = analysis_jobs[e.job_id].stock_ticker
                /\ e.status = analysis_jobs[e.job_id].status
                /\ e.created_at = analysis_jobs[e.job_id].created_at
                /\ \A j \in JobIds \ ListedIds :
                      TimeOf(analysis_jobs[j].created_at) <= TimeOf(e.created_at)

C9_Witness ==
    /\ response.op = "recent"
    /\ Len(analysis_jobs) = 11
    /\ Len(response.body) = 10
    /\ response.body[1].created_at # response.body[10].created_at
    /\ \E i \in 1..10 : response.body[i].status = "completed"

\* C10 (as claimed): an upload whose extension is not allowed is answered
\* with status 400 and the "File type not allowed..." message, writes no file
\* and triggers no index reinitialisation.
C10_BadExtensionIs400 ==
    [][(response'.op = "upload" /\ ~ExtensionAllowed(response'.request)) =>
          /\ response'.code = 400
          /\ response'.body = <<FileTypeError.detail>>
          /\ files' = files
          /\ index_reinits' = index_reinits]_vars

\* C11: a creation inserts, under an id that was not in the store, a record
\* with status "pending", progress 0, no result and no error; the record is
\* in the store when the response (that id, "pending") is sent, and the
\* job's runner has not executed a statement by then.
C11_CreateThenRespond ==
    [][response'.op = "analyze" =>
          LET id == response'.body[1].job_id
          IN /\ id \notin JobIds
             /\ id \in DOMAIN analysis_jobs'
             /\ analysis_jobs'[id].status = "pending"
             /\ analysis_jobs'[id].progress = 0
             /\ IsNone(analysis_jobs'[id].result)
             /\ IsNone(analysis_jobs'[id].error)
             /\ analysis_jobs'[id].stock_ticker = response'.request
             /\ response'.body[1].status = "pending"
             /\ tasks'[id].pc = 127
             /\ running' = NoJob]_vars

C11_Witness ==
    /\ response.op = "analyze"
    /\ response.body[1].job_id = 2
    /\ analysis_jobs[1].status = "completed"
    /\ analysis_jobs[2].status = "pending"

CallsOf(j, fn) == {i \in 1..Len(calls[j]) : calls[j][i].fn = fn}

\* C12: for a job with include_uploaded_docs = true the first collaborator
\* call is get_chromarag (so it precedes kickoff), made while progress is
\* 20; for a job with include_uploaded_docs = false get_chromarag is never
\* called and progress is never 20.
C12_DocsIndexFirst ==
    /\ [](\A j \in JobIds :
            IF tasks[j].include_uploaded_docs
            THEN /\ calls[j] # <<>> => calls[j][1].fn = "get_chromarag"
                 /\ CallsOf(j, "get_chromarag") \subseteq {1}
            ELSE /\ CallsOf(j, "get_chromarag") = {}
                 /\ analysis_jobs[j].progress # 20)
    /\ [][\A j \in JobIds :
            CallsOf(j, "get_chromarag")' # CallsOf(j, "get_chromarag") =>
               analysis_jobs[j].progress = 20]_vars

C12_Witness ==
    \E j, k \in JobIds :
        /\ tasks[j].include_uploaded_docs
        /\ Len(calls[j]) = 2 /\ calls[j][1].fn = "get_chromarag"
        /\ calls[j][2].fn = "kickoff"
        /\ ~tasks[k].include_uploaded_docs
        /\ Len(calls[k]) = 1 /\ calls[k][1].fn = "kickoff"

ProgressMatchStatus(v) == v.progress = 100 <=> v.status = "completed"

\* C13: every snapshot a reader obtains (status poll or stream event) has
\* progress 100 exactly when its status is "completed".
C13_Progress100IffCompleted ==
    /\ PollOk => ProgressMatchStatus(PollBody)
    /\ \A s \in 1..MaxStreams : HasSnapshot(s) => ProgressMatchStatus(LastEvent(s))

C13_Witness ==
    /\ PollOk /\ PollBody.status = "completed" /\ PollBody.progress = 100
    /\ \E s \in 1..MaxStreams :
          HasSnapshot(s) /\ LastEvent(s).status = "completed"
             /\ LastEvent(s).progress = 100
Triple(v) == <<v.status, v.progress, v.message>>

\* The checkpoints of run_analysis as (status, progress, message), with the
\* record as created and the record as the except block leaves it.
CheckpointTriples ==
    {<<"pending", 0, "Analysis job created">>,
     <<"processing", 10, "Initializing analysis agents...">>,
     <<"processing", 20, "Loading uploaded documents...">>,
     <<"processing", 20,
       "No documents found, proceeding without document analysis...">>,
     <<"processing", 30, "Starting fundamental analysis...">>,
     <<"processing", 50, "Performing valuation analysis...">>,
     <<"processing", 80, "Analyzing market sentiment...">>,
     <<"completed", 100, "Analysis completed successfully">>}
    \cup {<<"failed", p, FailureMessage(d)>> :
             p \in {10, 20, 30, 50, 80}, d \in IndexErrors \cup AnalysisErrors}

\* C14: whenever a reader can run (the event loop is not inside a runner),
\* the (status, progress, message) of every record is one of the
\* checkpoint triples, and so is the triple of every polled snapshot.
C14_CheckpointTriples ==
    /\ LoopIdle => \A j \in JobIds : Triple(analysis_jobs[j]) \in CheckpointTriples
    /\ PollOk => Triple(PollBody) \in CheckpointTriples

C14_Witness ==
    /\ PollOk
    /\ Triple(PollBody) = <<"failed", 20, FailureMessage("index unavailable")>>
    /\ \E j \in JobIds :
          Triple(analysis_jobs[j]) = <<"completed", 100, "Analysis completed successfully">>

\* C15: every kickoff call of job j is made with j's own stock_ticker, both
\* in the inputs it is passed and in the class attribute InvestmentCrew.stock
\* at the time of the call, whatever other jobs ran before it.
C15_OwnTicker ==
    \A j \in JobIds : \A i \in CallsOf(j, "kickoff") :
        /\ calls[j][i].stock = analysis_jobs[j].stock_ticker
        /\ calls[j][i].class_stock = Some(analysis_jobs[j].stock_ticker)

C15_Witness ==
    \E j, k \in JobIds :
        /\ analysis_jobs[j].stock_ticker # analysis_jobs[k].stock_ticker
        /\ CallsOf(j, "kickoff") # {}
        /\ CallsOf(k, "kickoff") # {}

\* Pairs (p, q) such that progress q may directly follow progress p.
ProgressSteps(docs) ==
    {<<0, 10>>, <<30, 50>>, <<50, 80>>, <<80, 100>>}
    \cup (IF docs THEN {<<10, 20>>, <<20, 30>>} ELSE {<<10, 30>>})

\* C16: progress stays within 0..100; every change of it is a step of the
\* sequence 0, 10, (20 only with include_uploaded_docs), 30, 50, 80, 100;
\* a job that is failed has progress below 100, and the steps that fail a
\* job and those after them leave progress as it was.
C16_ProgressSequence ==
    /\ [](\A j \in JobIds :
             /\ analysis_jobs[j].progress \in 0..100
             /\ analysis_jobs[j].status = "failed" => analysis_jobs[j].progress < 100)
    /\ [][\A j \in JobIds :
             /\ analysis_jobs'[j].progress # analysis_jobs[j].progress =>
                   <<analysis_jobs[j].progress, analysis_jobs'[j].progress>>
                      \in ProgressSteps(tasks[j].include_uploaded_docs)
             /\ analysis_jobs'[j].status = "failed" =>
                   analysis_jobs'[j].progress = analysis_jobs[j].progress]_vars

C16_Witness ==
    \E j, k \in JobIds :
        /\ analysis_jobs[j].status = "failed" /\ analysis_jobs[j].progress = 50
        /\ tasks[j].pc = 200
        /\ analysis_jobs[k].status = "completed" /\ analysis_jobs[k].progress = 100
        /\ tasks[k].include_uploaded_docs
OpenOn(s, j) == streams[s].pc # "idle" /\ streams[s].job_id = j

\* C17: once a job is terminal, every stream open on it ends; a stream
\* that goes on to sleep for another round has just emitted a snapshot of a
\* non-terminal job; and a step of one stream changes no other stream.
C17_StreamsTerminate ==
    /\ \A s \in 1..MaxFairStreams :
          (OpenOn(s, 1) /\ 1 \in JobIds /\ analysis_jobs[1].status \in Terminal)
             ~> (streams[s].pc = "done")
    /\ [](\A s \in 1..MaxFairStreams :
             streams[s].pc = "sleep" =>
                HasSnapshot(s) /\ LastEvent(s).status \notin Terminal)
    /\ [][\A s, t \in 1..MaxFairStreams :
             s # t /\ streams'[s] # streams[s] => streams'[t] = streams[t]]_vars

C17_Witness ==
    /\ 1 \in JobIds /\ analysis_jobs[1].status = "failed"
    /\ OpenOn(1, 1) /\ streams[1].pc = "done" /\ streams[1].count = 1
    /\ OpenOn(2, 1) /\ streams[2].pc = "done" /\ streams[2].count = 2
IndexNone(j) ==
    /\ calls[j] # <<>>
    /\ calls[j][1].fn = "get_chromarag"
    /\ calls[j][1].outcome = "none"

NoDocumentsMessage == "No documents found, proceeding without document analysis..."

\* C18: a job run with include_uploaded_docs = true whose document index
\* call returned None is not failed unless a later collaborator raises; its
\* message is the "No documents found..." text when the runner goes on to
\* the progress-30 checkpoint, which it reaches; and once kickoff has
\* returned the job becomes completed with that summary.
C18_NoDocumentsContinues ==
    /\ [](\A j \in JobIds :
             IndexNone(j) =>
                /\ tasks[j].include_uploaded_docs
                /\ ~Raised(j) => analysis_jobs[j].status # "failed"
                /\ tasks[j].pc = 154 =>
                      Triple(analysis_jobs[j]) = <<"processing", 20, NoDocumentsMessage>>)
    /\ \A j \in 1..MaxFairJobs :
          /\ (j \in JobIds /\ IndexNone(j) /\ tasks[j].pc = 143)
                ~> (j \in JobIds /\ analysis_jobs[j].message = NoDocumentsMessage)
          /\ (j \in JobIds /\ IndexNone(j))
                ~> (j \in JobIds /\ analysis_jobs[j].progress >= 30)
          /\ (j \in JobIds /\ IndexNone(j) /\ KickoffReturned(j))
                ~> (j \in JobIds /\ CompletedWith(j, LastCall(j).value))

C18_Witness ==
    \E j \in JobIds :
        /\ IndexNone(j)
        /\ KickoffReturned(j)
        /\ CompletedWith(j, LastCall(j).value)
\* C19: no step removes an id from the store or changes the stock_ticker
\* or created_at of a record; a record enters the store with the request's
\* ticker and the clock value of its creation; the ticker stays the one the
\* job's runner was scheduled with.
C19_JobsKept ==
    /\ [][/\ JobIds \subseteq DOMAIN analysis_jobs'
          /\ \A j \in JobIds :
                /\ analysis_jobs'[j].stock_ticker = analysis_jobs[j].stock_ticker
                /\ analysis_jobs'[j].created_at = analysis_jobs[j].created_at
          /\ \A j \in DOMAIN analysis_jobs' \ JobIds :
                /\ analysis_jobs'[j].stock_ticker = response'.request
                /\ analysis_jobs'[j].created_at = Isoformat(now)]_vars
    /\ [](\A j \in JobIds :
             /\ j \in returned
             /\ analysis_jobs[j].stock_ticker = tasks[j].stock_ticker)

C19_Witness ==
    /\ response.op = "clear"
    /\ now > ClockStart
    /\ \E j \in JobIds :
          /\ analysis_jobs[j].status = "completed"
          /\ analysis_jobs[j].created_at = Isoformat(ClockStart)
          /\ Get(analysis_jobs[j].result).timestamp = Isoformat(now)
    /\ streams[1].pc = "done"

\* C20: a step of the runner of job j leaves the record of every other job
\* as it was, and a step that is a status read, a stream event or a listing
\* leaves the whole store as it was.
C20_Frame ==
    [][/\ \A j \in JobIds :
             tasks'[j] # tasks[j] =>
                /\ DOMAIN analysis_jobs' = JobIds
                /\ \A k \in JobIds \ {j} : analysis_jobs'[k] = analysis_jobs[k]
       /\ (response'.op \in {"status", "recent"} \/ streams' # streams) =>
             analysis_jobs' = analysis_jobs]_vars

C20_Witness ==
    /\ Len(analysis_jobs) = 2
    /\ analysis_jobs[1].status = "pending"
    /\ analysis_jobs[2].status = "failed"
    /\ analysis_jobs[1].stock_ticker # analysis_jobs[2].stock_ticker
    /\ HasSnapshot(1) /\ LastEvent(1).status = "failed"
    /\ response.op = "recent"

====
